---------------------------- MODULE Spec2Model ----------------------------
(***************************************************************************)
(* Model of hardware_driver::button_driver::ButtonEventHandler             *)
(* (button_event_handler.cpp / button_event_handler.hpp).                  *)
(*                                                                         *)
(* The handler is a three-mode machine (IDLE, TEACHING, REPLAYING) kept   *)
(* in two flags.  Button events arrive through on_button_event, the        *)
(* motion layer reports the end of a replay through                        *)
(* notify_replay_complete, and mode changes are requested from an          *)
(* injected controller-switch callback that answers true or false.         *)
(*                                                                         *)
(* Every public method is one action.  Strings are TLA+ strings; log       *)
(* messages are ASCII renderings of the source's messages.                 *)
(***************************************************************************)
EXTENDS Integers, Sequences, FiniteSets, TLC

(* ------------------------------ bounds -------------------------------- *)

\* Largest wall-clock reading (seconds) the model lets the clock reach.
MaxClock == 3

\* Largest raw status byte delivered; values above TEACH_REPEAT are outside
\* the enumeration and take the default branch of the switch.
MaxStatus == 4

\* CAN interface names used as arguments.
Interfaces == {"can0", "can1"}

(* ------------------------- program constants -------------------------- *)

\* enum class ButtonStatus
NONE == 0
ENTRY_TEACH == 1
EXIT_TEACH == 2
TEACH_REPEAT == 3

\* enum class ControllerCommand
START_RECORD == 1
STOP_RECORD == 2
START_REPLAY == 3

Statuses == 0..MaxStatus

(* ------------------------------- state -------------------------------- *)

VARIABLES
    controller_callback_,       \* TRUE iff the std::function holds a target
    replay_complete_callback_,  \* TRUE iff the std::function holds a target
    log_callback_,              \* TRUE iff the std::function holds a target
    is_teaching_,
    is_replaying_,
    current_trajectory_name_,
    last_interface_,
    clock,                      \* std::chrono::system_clock, in seconds
    last_call,                  \* the most recent public call and its arguments
    pre,                        \* the session state when that call began
    controller_calls,           \* controller-callback invocations of that call
    replay_complete_calls,      \* completion-callback invocations of that call
    log_calls,                  \* log-callback invocations of that call
    recorded_trajectory         \* id of the last START_RECORD the controller accepted

\* Bookkeeping of the specifications that observe more than one call; the
\* serialized specification leaves it at rest.
VARIABLES
    entries,                    \* an earlier and the latest successful START_RECORD
    twin,                       \* a second handler instance, set aside
    phase,                      \* whose turn it is to take the call
    threads,                    \* per calling thread: its call and where it is
    started,                    \* calls begun by the threads
    replay_request              \* the latest START_REPLAY request and what followed

handler == <<controller_callback_, replay_complete_callback_, log_callback_,
             is_teaching_, is_replaying_, current_trajectory_name_,
             last_interface_, clock, last_call, pre, controller_calls,
             replay_complete_calls, log_calls, recorded_trajectory>>

vars == <<handler, entries, twin, phase, threads, started, replay_request>>

\* All the bookkeeping, and all of it but one part.
bookkeeping == <<entries, twin, phase, threads, started, replay_request>>
besides_entries == <<twin, phase, threads, started, replay_request>>
besides_twin == <<entries, threads, started, replay_request>>
besides_threads == <<entries, twin, phase>>

\* The threads that call into the handler: the transport's, the motion
\* layer's.
Threads == {"t1", "t2"}

\* A thread that is in no call.
Idle ==
    [pc |-> "idle", op |-> "", interface |-> "", status |-> NONE, ret |-> FALSE,
     name |-> "", overwritten |-> ""]

\* No START_REPLAY has been requested yet.
NoRequest ==
    [requested |-> FALSE, returned |-> FALSE, accepted |-> FALSE,
     notified |-> FALSE, signals |-> 0]

callbacks == <<controller_callback_, replay_complete_callback_, log_callback_>>

\* The session state as the accessors expose it.
Session ==
    [is_teaching |-> is_teaching_,
     is_replaying |-> is_replaying_,
     current_trajectory_name |-> current_trajectory_name_,
     last_interface |-> last_interface_]

\* ret is the answer the controller callback has ready for this call; it is
\* FALSE for the calls that never reach the controller.
Call(op, interface, status, ret) ==
    [op |-> op, interface |-> interface, status |-> status, ret |-> ret]

(* ------------------------------ helpers ------------------------------- *)

\* Variant: the name is taken from a clock of coarser resolution.
generate_trajectory_name_Coarse ==
    "button_traj_" \o ToString(clock \div 2)

\* ss << "button_traj_" << time_t
generate_trajectory_name ==
    "button_traj_" \o ToString(clock)

\* log(message): forwarded with the class prefix when a log callback is set,
\* dropped otherwise.  Applied to the messages of one call, in order.
log(messages) ==
    IF log_callback_
    THEN [k \in DOMAIN messages |-> "[ButtonEventHandler] " \o messages[k]]
    ELSE << >>

\* One invocation of the controller-switch callback and its answer.
ControllerCall(command, trajectory_name, ret) ==
    [command |-> command, trajectory_name |-> trajectory_name, result |-> ret]

\* What a private handler leaves behind: the mode flags, the trajectory
\* name, the controller invocations it made and the messages it logged.
Outcome(teaching, replaying, name, calls, messages) ==
    [is_teaching |-> teaching,
     is_replaying |-> replaying,
     current_trajectory_name |-> name,
     controller_calls |-> calls,
     messages |-> messages]

(* -------------------------- private handlers -------------------------- *)

\* ret is the answer the controller callback gives, should it be invoked.

\* An early return: one message logged, nothing else touched.
Ignored(message) ==
    Outcome(is_teaching_, is_replaying_, current_trajectory_name_, << >>,
            <<message>>)

\* Variant: the controller is asked with the name held before the new one.
handle_entry_teach_request_OldName(interface, ret) ==
    LET name == generate_trajectory_name
        entering == "enter teaching (interface=" \o interface \o ")"
    IN  IF controller_callback_
        THEN IF ret
             THEN Outcome(TRUE, is_replaying_, name,
                          <<ControllerCall(START_RECORD, current_trajectory_name_, ret)>>,
                          <<entering, "teaching started, trajectory: " \o name>>)
             ELSE Outcome(is_teaching_, is_replaying_, name,
                          <<ControllerCall(START_RECORD, current_trajectory_name_, ret)>>,
                          <<entering, "start teaching failed">>)
        ELSE Outcome(is_teaching_, is_replaying_, name, << >>,
                     <<entering, "controller switch callback not set">>)

\* Variant: the flag is set together with the message, under the log
\* callback.
handle_entry_teach_request_LoggedOnly(interface, ret) ==
    LET name == generate_trajectory_name
        entering == "enter teaching (interface=" \o interface \o ")"
    IN  IF controller_callback_
        THEN IF ret
             THEN Outcome(log_callback_, is_replaying_, name,
                          <<ControllerCall(START_RECORD, name, ret)>>,
                          <<entering, "teaching started, trajectory: " \o name>>)
             ELSE Outcome(is_teaching_, is_replaying_, name,
                          <<ControllerCall(START_RECORD, name, ret)>>,
                          <<entering, "start teaching failed">>)
        ELSE Outcome(is_teaching_, is_replaying_, name, << >>,
                     <<entering, "controller switch callback not set">>)

\* handle_entry_teach past its two guards: name the trajectory, then ask
\* the controller to start recording.
handle_entry_teach_request(interface, ret) ==
    LET name == generate_trajectory_name
        entering == "enter teaching (interface=" \o interface \o ")"
    IN  IF controller_callback_
        THEN IF ret
             THEN Outcome(TRUE, is_replaying_, name,
                          <<ControllerCall(START_RECORD, name, ret)>>,
                          <<entering, "teaching started, trajectory: " \o name>>)
             ELSE Outcome(is_teaching_, is_replaying_, name,
                          <<ControllerCall(START_RECORD, name, ret)>>,
                          <<entering, "start teaching failed">>)
        ELSE Outcome(is_teaching_, is_replaying_, name, << >>,
                     <<entering, "controller switch callback not set">>)

\* Variant: the replaying guard is missing.
handle_entry_teach_NoReplayGuard(interface, ret) ==
    IF is_teaching_
    THEN Ignored("already teaching, duplicate entry ignored")
    ELSE handle_entry_teach_request(interface, ret)

\* Variant: the trajectory is named before the guards are looked at.
handle_entry_teach_NamesFirst(interface, ret) ==
    IF is_teaching_
    THEN Outcome(is_teaching_, is_replaying_, generate_trajectory_name, << >>,
                 <<"already teaching, duplicate entry ignored">>)
    ELSE IF is_replaying_
    THEN Outcome(is_teaching_, is_replaying_, generate_trajectory_name, << >>,
                 <<"replaying, cannot enter teaching">>)
    ELSE handle_entry_teach_request(interface, ret)

handle_entry_teach(interface, ret) ==
    IF is_teaching_
    THEN Ignored("already teaching, duplicate entry ignored")
    ELSE IF is_replaying_
    THEN Ignored("replaying, cannot enter teaching")
    ELSE handle_entry_teach_request(interface, ret)

\* Variant: the flag is cleared whatever the controller answers.
handle_exit_teach_request_AlwaysClears(interface, ret) ==
    LET name == current_trajectory_name_
        exiting == "exit teaching (interface=" \o interface \o ")"
    IN  IF controller_callback_
        THEN Outcome(FALSE, is_replaying_, name,
                     <<ControllerCall(STOP_RECORD, name, ret)>>,
                     <<exiting, IF ret
                                THEN "teaching ended, trajectory saved: " \o name
                                ELSE "stop teaching failed">>)
        ELSE Outcome(is_teaching_, is_replaying_, name, << >>,
                     <<exiting, "controller switch callback not set">>)

\* Variant: the controller is asked to stop a freshly generated name.
handle_exit_teach_request_FreshName(interface, ret) ==
    LET name == generate_trajectory_name
        exiting == "exit teaching (interface=" \o interface \o ")"
    IN  IF controller_callback_
        THEN IF ret
             THEN Outcome(FALSE, is_replaying_, current_trajectory_name_,
                          <<ControllerCall(STOP_RECORD, name, ret)>>,
                          <<exiting, "teaching ended, trajectory saved: " \o name>>)
             ELSE Outcome(is_teaching_, is_replaying_, current_trajectory_name_,
                          <<ControllerCall(STOP_RECORD, name, ret)>>,
                          <<exiting, "stop teaching failed">>)
        ELSE Outcome(is_teaching_, is_replaying_, current_trajectory_name_, << >>,
                     <<exiting, "controller switch callback not set">>)

\* handle_exit_teach past its guard: ask the controller to stop recording.
handle_exit_teach_request(interface, ret) ==
    LET name == current_trajectory_name_
        exiting == "exit teaching (interface=" \o interface \o ")"
    IN  IF controller_callback_
        THEN IF ret
             THEN Outcome(FALSE, is_replaying_, name,
                          <<ControllerCall(STOP_RECORD, name, ret)>>,
                          <<exiting, "teaching ended, trajectory saved: " \o name>>)
             ELSE Outcome(is_teaching_, is_replaying_, name,
                          <<ControllerCall(STOP_RECORD, name, ret)>>,
                          <<exiting, "stop teaching failed">>)
        ELSE Outcome(is_teaching_, is_replaying_, name, << >>,
                     <<exiting, "controller switch callback not set">>)

\* Variant: the teaching guard is missing.
handle_exit_teach_NoGuard(interface, ret) ==
    handle_exit_teach_request(interface, ret)

handle_exit_teach(interface, ret) ==
    IF ~is_teaching_
    THEN Ignored("not teaching, exit ignored")
    ELSE handle_exit_teach_request(interface, ret)

\* Variant: a refused START_REPLAY is asked for a second time.
handle_teach_repeat_request_Retries(interface, ret) ==
    LET name == current_trajectory_name_
        starting == "start replay (interface=" \o interface
                    \o ", trajectory=" \o name \o ")"
    IN  IF controller_callback_
        THEN IF ret
             THEN Outcome(is_teaching_, TRUE, name,
                          <<ControllerCall(START_REPLAY, name, ret)>>,
                          <<starting, "replay started: " \o name>>)
             ELSE Outcome(is_teaching_, is_replaying_, name,
                          <<ControllerCall(START_REPLAY, name, ret),
                            ControllerCall(START_REPLAY, name, ret)>>,
                          <<starting, "start replay failed">>)
        ELSE Outcome(is_teaching_, is_replaying_, name, << >>,
                     <<starting, "controller switch callback not set">>)

\* handle_teach_repeat past its two guards: ask the controller to replay
\* the current trajectory.
handle_teach_repeat_request(interface, ret) ==
    LET name == current_trajectory_name_
        starting == "start replay (interface=" \o interface
                    \o ", trajectory=" \o name \o ")"
    IN  IF controller_callback_
        THEN IF ret
             THEN Outcome(is_teaching_, TRUE, name,
                          <<ControllerCall(START_REPLAY, name, ret)>>,
                          <<starting, "replay started: " \o name>>)
             ELSE Outcome(is_teaching_, is_replaying_, name,
                          <<ControllerCall(START_REPLAY, name, ret)>>,
                          <<starting, "start replay failed">>)
        ELSE Outcome(is_teaching_, is_replaying_, name, << >>,
                     <<starting, "controller switch callback not set">>)

\* Variant: the teaching guard is missing.
handle_teach_repeat_NoTeachingGuard(interface, ret) ==
    IF is_replaying_
    THEN Ignored("already replaying, duplicate ignored")
    ELSE handle_teach_repeat_request(interface, ret)

\* Variant: a TEACH_REPEAT during a replay switches the replay off.
handle_teach_repeat_Toggles(interface, ret) ==
    IF is_teaching_
    THEN Ignored("teaching, cannot start replay")
    ELSE IF is_replaying_
    THEN Outcome(is_teaching_, FALSE, current_trajectory_name_, << >>,
                 <<"already replaying, duplicate ignored">>)
    ELSE handle_teach_repeat_request(interface, ret)

handle_teach_repeat(interface, ret) ==
    IF is_teaching_
    THEN Ignored("teaching, cannot start replay")
    ELSE IF is_replaying_
    THEN Ignored("already replaying, duplicate ignored")
    ELSE handle_teach_repeat_request(interface, ret)

\* Variant: the default branch falls into the EXIT_TEACH handler.
dispatch_DefaultExits(interface, status, ret) ==
    CASE status = ENTRY_TEACH  -> handle_entry_teach(interface, ret)
      [] status = EXIT_TEACH   -> handle_exit_teach(interface, ret)
      [] status = TEACH_REPEAT -> handle_teach_repeat(interface, ret)
      [] OTHER -> handle_exit_teach(interface, ret)

\* Variant: during a session, events of an interface other than the last
\* one are dropped.
dispatch_ByInterface(interface, status, ret) ==
    IF (is_teaching_ \/ is_replaying_) /\ interface # last_interface_
    THEN Ignored("event of another interface ignored")
    ELSE CASE status = ENTRY_TEACH  -> handle_entry_teach(interface, ret)
           [] status = EXIT_TEACH   -> handle_exit_teach(interface, ret)
           [] status = TEACH_REPEAT -> handle_teach_repeat(interface, ret)
           [] OTHER -> Ignored("unknown button status: " \o ToString(status))

\* The switch of on_button_event.
dispatch(interface, status, ret) ==
    CASE status = ENTRY_TEACH  -> handle_entry_teach(interface, ret)
      [] status = EXIT_TEACH   -> handle_exit_teach(interface, ret)
      [] status = TEACH_REPEAT -> handle_teach_repeat(interface, ret)
      [] OTHER -> Ignored("unknown button status: " \o ToString(status))

(* --------------------------- public methods --------------------------- *)

set_controller_switch_callback(callback) ==
    /\ controller_callback_' = callback
    /\ last_call' = Call("set_controller_switch_callback", "", NONE, FALSE)
    /\ pre' = Session
    /\ controller_calls' = << >>
    /\ replay_complete_calls' = << >>
    /\ log_calls' = << >>
    /\ UNCHANGED <<replay_complete_callback_, log_callback_, is_teaching_,
                   is_replaying_, current_trajectory_name_, last_interface_,
                   clock, recorded_trajectory>>

set_replay_complete_callback(callback) ==
    /\ replay_complete_callback_' = callback
    /\ last_call' = Call("set_replay_complete_callback", "", NONE, FALSE)
    /\ pre' = Session
    /\ controller_calls' = << >>
    /\ replay_complete_calls' = << >>
    /\ log_calls' = << >>
    /\ UNCHANGED <<controller_callback_, log_callback_, is_teaching_,
                   is_replaying_, current_trajectory_name_, last_interface_,
                   clock, recorded_trajectory>>

set_log_callback(callback) ==
    /\ log_callback_' = callback
    /\ last_call' = Call("set_log_callback", "", NONE, FALSE)
    /\ pre' = Session
    /\ controller_calls' = << >>
    /\ replay_complete_calls' = << >>
    /\ log_calls' = << >>
    /\ UNCHANGED <<controller_callback_, replay_complete_callback_,
                   is_teaching_, is_replaying_, current_trajectory_name_,
                   last_interface_, clock, recorded_trajectory>>

on_button_event(interface, status, ret) ==
    LET h == dispatch(interface, status, ret)
        received == "button event: interface=" \o interface
                    \o ", status=" \o ToString(status)
    IN  /\ last_call' = Call("on_button_event", interface, status, ret)
        /\ pre' = Session
        /\ last_interface_' = interface
        /\ is_teaching_' = h.is_teaching
        /\ is_replaying_' = h.is_replaying
        /\ current_trajectory_name_' = h.current_trajectory_name
        /\ controller_calls' = h.controller_calls
        /\ replay_complete_calls' = << >>
        /\ log_calls' = log(<<received>> \o h.messages)
        /\ recorded_trajectory' =
              IF \E k \in DOMAIN h.controller_calls :
                     /\ h.controller_calls[k].command = START_RECORD
                     /\ h.controller_calls[k].result
              THEN h.current_trajectory_name
              ELSE recorded_trajectory
        /\ UNCHANGED <<callbacks, clock>>

\* Variant: the completion signal goes to the interface of the last button.
notify_replay_complete_LastInterface(interface) ==
    /\ last_call' = Call("notify_replay_complete", interface, NONE, FALSE)
    /\ pre' = Session
    /\ controller_calls' = << >>
    /\ IF is_replaying_
       THEN /\ is_replaying_' = FALSE
            /\ log_calls' = log(<<"replay complete: interface=" \o interface>>)
            /\ replay_complete_calls' =
                  IF replay_complete_callback_ THEN <<last_interface_>> ELSE << >>
       ELSE /\ is_replaying_' = is_replaying_
            /\ log_calls' = << >>
            /\ replay_complete_calls' = << >>
    /\ UNCHANGED <<callbacks, is_teaching_, current_trajectory_name_,
                   last_interface_, clock, recorded_trajectory>>

\* Variant: the replaying flag is not consulted.
notify_replay_complete_Unguarded(interface) ==
    /\ last_call' = Call("notify_replay_complete", interface, NONE, FALSE)
    /\ pre' = Session
    /\ controller_calls' = << >>
    /\ is_replaying_' = FALSE
    /\ log_calls' = log(<<"replay complete: interface=" \o interface>>)
    /\ replay_complete_calls' =
          IF replay_complete_callback_ THEN <<interface>> ELSE << >>
    /\ UNCHANGED <<callbacks, is_teaching_, current_trajectory_name_,
                   last_interface_, clock, recorded_trajectory>>

notify_replay_complete(interface) ==
    /\ last_call' = Call("notify_replay_complete", interface, NONE, FALSE)
    /\ pre' = Session
    /\ controller_calls' = << >>
    /\ IF is_replaying_
       THEN /\ is_replaying_' = FALSE
            /\ log_calls' = log(<<"replay complete: interface=" \o interface>>)
            /\ replay_complete_calls' =
                  IF replay_complete_callback_ THEN <<interface>> ELSE << >>
       ELSE /\ is_replaying_' = is_replaying_
            /\ log_calls' = << >>
            /\ replay_complete_calls' = << >>
    /\ UNCHANGED <<callbacks, is_teaching_, current_trajectory_name_,
                   last_interface_, clock, recorded_trajectory>>

\* The wall clock advances between calls.
Tick ==
    /\ clock < MaxClock
    /\ clock' = clock + 1
    /\ UNCHANGED <<callbacks, is_teaching_, is_replaying_,
                   current_trajectory_name_, last_interface_, last_call, pre,
                   controller_calls, replay_complete_calls, log_calls,
                   recorded_trajectory>>

(* --------------------------- specification ---------------------------- *)

\* ButtonEventHandler() = default, with the member initialisers.
Constructed ==
    /\ controller_callback_ = FALSE
    /\ replay_complete_callback_ = FALSE
    /\ log_callback_ = FALSE
    /\ is_teaching_ = FALSE
    /\ is_replaying_ = FALSE
    /\ current_trajectory_name_ = ""
    /\ last_interface_ = ""
    /\ clock = 0
    /\ last_call = Call("ButtonEventHandler", "", NONE, FALSE)
    /\ pre = Session
    /\ controller_calls = << >>
    /\ replay_complete_calls = << >>
    /\ log_calls = << >>
    /\ recorded_trajectory = ""

\* Everything of one handler instance but the clock it reads.
Snapshot ==
    [controller_callback |-> controller_callback_,
     replay_complete_callback |-> replay_complete_callback_,
     log_callback |-> log_callback_,
     is_teaching |-> is_teaching_,
     is_replaying |-> is_replaying_,
     current_trajectory_name |-> current_trajectory_name_,
     last_interface |-> last_interface_,
     last_call |-> last_call,
     pre |-> pre,
     controller_calls |-> controller_calls,
     replay_complete_calls |-> replay_complete_calls,
     log_calls |-> log_calls,
     recorded_trajectory |-> recorded_trajectory]

Init ==
    /\ Constructed
    /\ entries = << >>
    /\ twin = Snapshot
    /\ phase = "first"
    /\ threads = [t \in Threads |-> Idle]
    /\ started = 0
    /\ replay_request = NoRequest

\* Serialized callers: one public call at a time, each run to completion.
Next ==
    \/ \E callback \in BOOLEAN :
           set_controller_switch_callback(callback) /\ UNCHANGED bookkeeping
    \/ \E callback \in BOOLEAN :
           set_replay_complete_callback(callback) /\ UNCHANGED bookkeeping
    \/ \E callback \in BOOLEAN :
           set_log_callback(callback) /\ UNCHANGED bookkeeping
    \/ \E interface \in Interfaces, status \in Statuses, ret \in BOOLEAN :
           on_button_event(interface, status, ret) /\ UNCHANGED bookkeeping
    \/ \E interface \in Interfaces :
           notify_replay_complete(interface) /\ UNCHANGED bookkeeping
    \/ Tick /\ UNCHANGED bookkeeping

Spec == Init /\ [][Next]_vars

(* ------------------- successive teaching sessions --------------------- *)

\* The serialized handler, with the successful START_RECORD requests kept:
\* entries holds the latest one and, before it, one earlier one.  Which
\* earlier one is kept is arbitrary, so every pair of entries is met.
Entered ==
    /\ controller_calls' # << >>
    /\ controller_calls'[1].command = START_RECORD
    /\ controller_calls'[1].result

Entry ==
    [at |-> clock, id |-> controller_calls'[1].trajectory_name]

SessionsNext ==
    \/ \E callback \in BOOLEAN :
           set_controller_switch_callback(callback) /\ UNCHANGED bookkeeping
    \/ \E callback \in BOOLEAN :
           set_replay_complete_callback(callback) /\ UNCHANGED bookkeeping
    \/ \E callback \in BOOLEAN :
           set_log_callback(callback) /\ UNCHANGED bookkeeping
    \/ \E interface \in Interfaces, status \in Statuses, ret \in BOOLEAN :
           /\ on_button_event(interface, status, ret)
           /\ IF Entered
              THEN \/ entries' = <<Entry>>
                   \/ entries # << >> /\ entries' = <<entries[1], Entry>>
              ELSE UNCHANGED entries
           /\ UNCHANGED besides_entries
    \/ \E interface \in Interfaces :
           notify_replay_complete(interface) /\ UNCHANGED bookkeeping
    \/ Tick /\ UNCHANGED bookkeeping

SessionsSpec == Init /\ [][SessionsNext]_vars

(* -------------------------- two handlers ------------------------------ *)

\* Two handler instances fed the same calls at the same clock readings.
\* The handler variables hold the instance whose turn it is, twin the other
\* one.  A call is taken by the first instance, the instances change
\* places, the second instance takes the same call.

\* Largest clock reading of the two-handler specifications.
TwinMaxClock == 1

\* The instance set aside becomes the one in the handler variables.
Load(instance) ==
    /\ controller_callback_' = instance.controller_callback
    /\ replay_complete_callback_' = instance.replay_complete_callback
    /\ log_callback_' = instance.log_callback
    /\ is_teaching_' = instance.is_teaching
    /\ is_replaying_' = instance.is_replaying
    /\ current_trajectory_name_' = instance.current_trajectory_name
    /\ last_interface_' = instance.last_interface
    /\ last_call' = instance.last_call
    /\ pre' = instance.pre
    /\ controller_calls' = instance.controller_calls
    /\ replay_complete_calls' = instance.replay_complete_calls
    /\ log_calls' = instance.log_calls
    /\ recorded_trajectory' = instance.recorded_trajectory

\* The first instance takes a call.
TwinCall ==
    /\ phase = "first"
    /\ phase' = "swap"
    /\ \/ \E callback \in BOOLEAN : set_controller_switch_callback(callback)
       \/ \E callback \in BOOLEAN : set_replay_complete_callback(callback)
       \/ \E interface \in Interfaces, status \in Statuses, ret \in BOOLEAN :
              on_button_event(interface, status, ret)
       \/ \E interface \in Interfaces : notify_replay_complete(interface)
    /\ UNCHANGED <<twin, besides_twin>>

TwinSwap ==
    /\ phase = "swap"
    /\ phase' = "second"
    /\ Load(twin)
    /\ twin' = Snapshot
    /\ UNCHANGED <<clock, besides_twin>>

\* The second instance takes the call the first one took: the same method,
\* the same arguments and the same answer of the controller.  With
\* any_interface the button event may name another interface.
TwinRepeat(any_interface) ==
    /\ phase = "second"
    /\ phase' = "first"
    /\ LET call == twin.last_call
       IN  CASE call.op = "set_controller_switch_callback" ->
                    set_controller_switch_callback(twin.controller_callback)
             [] call.op = "set_replay_complete_callback" ->
                    set_replay_complete_callback(twin.replay_complete_callback)
             [] call.op = "on_button_event" ->
                    \E interface \in Interfaces :
                        /\ any_interface \/ interface = call.interface
                        /\ on_button_event(interface, call.status, call.ret)
             [] call.op = "notify_replay_complete" ->
                    notify_replay_complete(call.interface)
    /\ UNCHANGED <<twin, besides_twin>>

\* One instance alone has its log callback set or cleared.
TwinLog ==
    /\ phase = "first"
    /\ \E callback \in BOOLEAN : set_log_callback(callback)
    /\ UNCHANGED bookkeeping

TwinTick ==
    /\ phase = "first"
    /\ clock < TwinMaxClock
    /\ Tick
    /\ UNCHANGED bookkeeping

\* The instances differ in their log callbacks only.
LogTwinNext ==
    \/ TwinCall
    \/ TwinSwap
    \/ TwinRepeat(FALSE)
    \/ TwinLog
    \/ TwinTick

LogTwinSpec == Init /\ [][LogTwinNext]_vars

\* The instances differ in the interfaces their button events name only;
\* neither has a log callback.
InterfaceTwinNext ==
    \/ TwinCall
    \/ TwinSwap
    \/ TwinRepeat(TRUE)
    \/ TwinTick

InterfaceTwinSpec == Init /\ [][InterfaceTwinNext]_vars

(* ------------------------ unserialized callers ------------------------ *)

\* Calls from several threads, interleaved at the handler's own grain: each
\* load of a flag, each store to a flag, each assignment of a string member
\* and each invocation of a callback is a step of its own.  The class holds
\* no lock, so between two steps of one thread any other thread may step.  A
\* call made from inside the controller callback is a call made between the
\* callback's invocation and its return.  The callbacks are registered
\* while no call is in progress.  Log messages are not followed here.

\* Calls the threads begin, all together.
MaxStarted == 3

\* What no step of a thread touches.
untouched == <<callbacks, clock, last_call, pre, controller_calls,
               replay_complete_calls, log_calls, besides_threads>>

\* The thread moves on to another place of its call.
Goto(t, pc) ==
    threads' = [threads EXCEPT ![t].pc = pc]

\* The thread's call returns.
Return(t) ==
    threads' = [threads EXCEPT ![t] = Idle]

\* The first place of each private handler.
EntryPoint(status) ==
    CASE status = ENTRY_TEACH  -> "entry_if_teaching"
      [] status = EXIT_TEACH   -> "exit_if_not_teaching"
      [] status = TEACH_REPEAT -> "repeat_if_teaching"

\* current_trajectory_name_ is a plain std::string: a thread that reads it
\* while another thread's handle_entry_teach has assigned it and not yet
\* returned may get the new value or the value it replaced.
Readable(t) ==
    {current_trajectory_name_} \cup
    {threads[u].overwritten :
        u \in {v \in Threads \ {t} : threads[v].pc \in {"entry_call", "entry_return"}}}

\* on_button_event up to the switch: last_interface_ is assigned and the
\* handler of the status entered; the default branch returns at once.
ThreadButtonEvent(t, interface, status, ret) ==
    /\ threads[t].pc = "idle"
    /\ started < MaxStarted
    /\ started' = started + 1
    /\ last_interface_' = interface
    /\ threads' = [threads EXCEPT ![t] =
          IF status \in {ENTRY_TEACH, EXIT_TEACH, TEACH_REPEAT}
          THEN [pc |-> EntryPoint(status), op |-> "on_button_event",
                interface |-> interface, status |-> status, ret |-> ret,
                name |-> "", overwritten |-> ""]
          ELSE Idle]
    /\ UNCHANGED <<is_teaching_, is_replaying_, current_trajectory_name_,
                   recorded_trajectory, replay_request, untouched>>

\* handle_entry_teach: if (is_teaching_) return;
EntryIfTeaching(t) ==
    /\ threads[t].pc = "entry_if_teaching"
    /\ IF is_teaching_ THEN Return(t) ELSE Goto(t, "entry_if_replaying")
    /\ UNCHANGED <<is_teaching_, is_replaying_, current_trajectory_name_,
                   last_interface_, recorded_trajectory, started,
                   replay_request, untouched>>

\* handle_entry_teach: if (is_replaying_) return;
EntryIfReplaying(t) ==
    /\ threads[t].pc = "entry_if_replaying"
    /\ IF is_replaying_ THEN Return(t) ELSE Goto(t, "entry_name")
    /\ UNCHANGED <<is_teaching_, is_replaying_, current_trajectory_name_,
                   last_interface_, recorded_trajectory, started,
                   replay_request, untouched>>

\* handle_entry_teach: current_trajectory_name_ = generate_trajectory_name();
\* then if (controller_callback_).
EntryName(t) ==
    /\ threads[t].pc = "entry_name"
    /\ current_trajectory_name_' = generate_trajectory_name
    /\ threads' = [threads EXCEPT
          ![t] = IF controller_callback_
                 THEN [@ EXCEPT !.pc = "entry_call",
                                !.overwritten = current_trajectory_name_]
                 ELSE Idle]
    /\ UNCHANGED <<is_teaching_, is_replaying_, last_interface_,
                   recorded_trajectory, started, replay_request, untouched>>

\* handle_entry_teach: controller_callback_(START_RECORD, name) is invoked.
EntryCall(t) ==
    /\ threads[t].pc = "entry_call"
    /\ \E name \in Readable(t) :
          threads' = [threads EXCEPT ![t].pc = "entry_return", ![t].name = name]
    /\ UNCHANGED <<is_teaching_, is_replaying_, current_trajectory_name_,
                   last_interface_, recorded_trajectory, started,
                   replay_request, untouched>>

\* handle_entry_teach: the callback returns; is_teaching_ = true on true.
EntryReturn(t) ==
    /\ threads[t].pc = "entry_return"
    /\ is_teaching_' = IF threads[t].ret THEN TRUE ELSE is_teaching_
    /\ recorded_trajectory' =
          IF threads[t].ret THEN threads[t].name ELSE recorded_trajectory
    /\ Return(t)
    /\ UNCHANGED <<is_replaying_, current_trajectory_name_, last_interface_,
                   started, replay_request, untouched>>

\* handle_exit_teach: if (!is_teaching_) return; then
\* if (controller_callback_).
ExitIfNotTeaching(t) ==
    /\ threads[t].pc = "exit_if_not_teaching"
    /\ IF is_teaching_ /\ controller_callback_
       THEN Goto(t, "exit_call")
       ELSE Return(t)
    /\ UNCHANGED <<is_teaching_, is_replaying_, current_trajectory_name_,
                   last_interface_, recorded_trajectory, started,
                   replay_request, untouched>>

\* handle_exit_teach: controller_callback_(STOP_RECORD, name) is invoked.
ExitCall(t) ==
    /\ threads[t].pc = "exit_call"
    /\ \E name \in Readable(t) :
          threads' = [threads EXCEPT ![t].pc = "exit_return", ![t].name = name]
    /\ UNCHANGED <<is_teaching_, is_replaying_, current_trajectory_name_,
                   last_interface_, recorded_trajectory, started,
                   replay_request, untouched>>

\* handle_exit_teach: the callback returns; is_teaching_ = false on true.
ExitReturn(t) ==
    /\ threads[t].pc = "exit_return"
    /\ is_teaching_' = IF threads[t].ret THEN FALSE ELSE is_teaching_
    /\ Return(t)
    /\ UNCHANGED <<is_replaying_, current_trajectory_name_, last_interface_,
                   recorded_trajectory, started, replay_request, untouched>>

\* handle_teach_repeat: if (is_teaching_) return;
RepeatIfTeaching(t) ==
    /\ threads[t].pc = "repeat_if_teaching"
    /\ IF is_teaching_ THEN Return(t) ELSE Goto(t, "repeat_if_replaying")
    /\ UNCHANGED <<is_teaching_, is_replaying_, current_trajectory_name_,
                   last_interface_, recorded_trajectory, started,
                   replay_request, untouched>>

\* handle_teach_repeat: if (is_replaying_) return; then
\* if (controller_callback_).
RepeatIfReplaying(t) ==
    /\ threads[t].pc = "repeat_if_replaying"
    /\ IF ~is_replaying_ /\ controller_callback_
       THEN Goto(t, "repeat_call")
       ELSE Return(t)
    /\ UNCHANGED <<is_teaching_, is_replaying_, current_trajectory_name_,
                   last_interface_, recorded_trajectory, started,
                   replay_request, untouched>>

\* handle_teach_repeat: controller_callback_(START_REPLAY, name) is invoked.
RepeatCall(t) ==
    /\ threads[t].pc = "repeat_call"
    /\ \E name \in Readable(t) :
          threads' = [threads EXCEPT ![t].pc = "repeat_return", ![t].name = name]
    /\ replay_request' = [NoRequest EXCEPT !.requested = TRUE]
    /\ UNCHANGED <<is_teaching_, is_replaying_, current_trajectory_name_,
                   last_interface_, recorded_trajectory, started, untouched>>

\* handle_teach_repeat: the callback returns; is_replaying_ = true on true.
RepeatReturn(t) ==
    /\ threads[t].pc = "repeat_return"
    /\ is_replaying_' = IF threads[t].ret THEN TRUE ELSE is_replaying_
    /\ replay_request' = [replay_request EXCEPT !.returned = TRUE,
                                                !.accepted = threads[t].ret]
    /\ Return(t)
    /\ UNCHANGED <<is_teaching_, current_trajectory_name_, last_interface_,
                   recorded_trajectory, started, untouched>>

\* notify_replay_complete is called.
ThreadNotify(t, interface) ==
    /\ threads[t].pc = "idle"
    /\ started < MaxStarted
    /\ started' = started + 1
    /\ threads' = [threads EXCEPT ![t] =
          [Idle EXCEPT !.pc = "notify_if_replaying",
                       !.op = "notify_replay_complete",
                       !.interface = interface]]
    /\ replay_request' =
          IF replay_request.requested
          THEN [replay_request EXCEPT !.notified = TRUE]
          ELSE replay_request
    /\ UNCHANGED <<is_teaching_, is_replaying_, current_trajectory_name_,
                   last_interface_, recorded_trajectory, untouched>>

\* notify_replay_complete: if (is_replaying_)
NotifyIfReplaying(t) ==
    /\ threads[t].pc = "notify_if_replaying"
    /\ IF is_replaying_ THEN Goto(t, "notify_clear") ELSE Return(t)
    /\ UNCHANGED <<is_teaching_, is_replaying_, current_trajectory_name_,
                   last_interface_, recorded_trajectory, started,
                   replay_request, untouched>>

\* notify_replay_complete: is_replaying_ = false; then
\* if (replay_complete_callback_).
NotifyClear(t) ==
    /\ threads[t].pc = "notify_clear"
    /\ is_replaying_' = FALSE
    /\ IF replay_complete_callback_ THEN Goto(t, "notify_signal") ELSE Return(t)
    /\ UNCHANGED <<is_teaching_, current_trajectory_name_, last_interface_,
                   recorded_trajectory, started, replay_request, untouched>>

\* notify_replay_complete: replay_complete_callback_(interface)
NotifySignal(t) ==
    /\ threads[t].pc = "notify_signal"
    /\ replay_request' =
          [replay_request EXCEPT !.signals = replay_request.signals + 1]
    /\ Return(t)
    /\ UNCHANGED <<is_teaching_, is_replaying_, current_trajectory_name_,
                   last_interface_, recorded_trajectory, started, untouched>>

\* No call is in progress.
Quiescent ==
    \A t \in Threads : threads[t].pc = "idle"

\* The callbacks are registered before the threads call in.
Configure ==
    /\ Quiescent
    /\ started = 0
    /\ \/ \E callback \in BOOLEAN : set_controller_switch_callback(callback)
       \/ \E callback \in BOOLEAN : set_replay_complete_callback(callback)
    /\ UNCHANGED bookkeeping

ThreadsNext ==
    \/ Configure
    \/ \E t \in Threads, interface \in Interfaces, status \in Statuses,
          ret \in BOOLEAN : ThreadButtonEvent(t, interface, status, ret)
    \/ \E t \in Threads, interface \in Interfaces : ThreadNotify(t, interface)
    \/ \E t \in Threads : EntryIfTeaching(t)
    \/ \E t \in Threads : EntryIfReplaying(t)
    \/ \E t \in Threads : EntryName(t)
    \/ \E t \in Threads : EntryCall(t)
    \/ \E t \in Threads : EntryReturn(t)
    \/ \E t \in Threads : ExitIfNotTeaching(t)
    \/ \E t \in Threads : ExitCall(t)
    \/ \E t \in Threads : ExitReturn(t)
    \/ \E t \in Threads : RepeatIfTeaching(t)
    \/ \E t \in Threads : RepeatIfReplaying(t)
    \/ \E t \in Threads : RepeatCall(t)
    \/ \E t \in Threads : RepeatReturn(t)
    \/ \E t \in Threads : NotifyIfReplaying(t)
    \/ \E t \in Threads : NotifyClear(t)
    \/ \E t \in Threads : NotifySignal(t)

ThreadsSpec == Init /\ [][ThreadsNext]_vars

(* ------------------------------ properties ---------------------------- *)

\* The last public call was on_button_event with this status.
ButtonEvent(status) ==
    /\ last_call.op = "on_button_event"
    /\ last_call.status = status

\* The last public call was notify_replay_complete.
Notified ==
    last_call.op = "notify_replay_complete"

\* The handler was IDLE when the last call began.
WasIdle ==
    /\ ~pre.is_teaching
    /\ ~pre.is_replaying

\* The last call left both flags and the trajectory name as it found them.
ModeKept ==
    /\ is_teaching_ = pre.is_teaching
    /\ is_replaying_ = pre.is_replaying
    /\ current_trajectory_name_ = pre.current_trajectory_name

\* C1: under serialized calls, whatever the events, the controller's answers
\* and the callbacks registered, is_teaching and is_replaying are never both
\* true.
C1_MutualExclusion ==
    ~(is_teaching_ /\ is_replaying_)

\* An ENTRY_TEACH arrived during a replay, with a controller ready to accept.
C1_Witness ==
    /\ ButtonEvent(ENTRY_TEACH)
    /\ pre.is_replaying
    /\ controller_callback_
    /\ last_call.ret
    /\ is_replaying_

\* C2: a controller request answered false (START_RECORD, STOP_RECORD or
\* START_REPLAY) leaves is_teaching, is_replaying and current_trajectory_name
\* as they were before the on_button_event call.
C2_FailedRequestKeepsSession ==
    ( /\ last_call.op = "on_button_event"
      /\ controller_calls # << >>
      /\ \A k \in DOMAIN controller_calls : ~controller_calls[k].result )
    => ModeKept

\* C3 as stated: notify_replay_complete(i) while REPLAYING clears is_replaying
\* and emits exactly one completion signal carrying i, in every reachable
\* configuration of the handler.
C3_AlwaysOneSignal ==
    (Notified /\ pre.is_replaying)
    => /\ ~is_replaying_
       /\ replay_complete_calls = <<last_call.interface>>

\* A step that is a notify_replay_complete call: every call but Tick leaves
\* the clock and records itself in last_call.
NotifyStep ==
    /\ clock' = clock
    /\ last_call'.op = "notify_replay_complete"

\* C3, amended: notify_replay_complete(i) while REPLAYING clears is_replaying
\* and emits exactly one completion signal carrying i when a replay-complete
\* callback is registered, and none when no such callback is registered; a
\* notify_replay_complete that directly follows another emits nothing.
C3_OneSignalWhenRegistered ==
    [][NotifyStep =>
         /\ is_replaying_ =>
               /\ ~is_replaying_'
               /\ replay_complete_calls' =
                     IF replay_complete_callback_
                     THEN <<last_call'.interface>>
                     ELSE << >>
         /\ Notified => replay_complete_calls' = << >>
      ]_vars

\* A replay was reported complete on an interface other than the one the
\* last button event came from, and the signal went out.
C3_Witness ==
    /\ Notified
    /\ pre.is_replaying
    /\ ~is_replaying_
    /\ last_call.interface # last_interface_
    /\ replay_complete_calls = <<last_call.interface>>

\* C4: notify_replay_complete while not REPLAYING invokes neither the
\* controller callback nor the completion callback and leaves is_teaching,
\* is_replaying, current_trajectory_name and last_interface unchanged.
C4_SpuriousNotifyIsNoOp ==
    (Notified /\ ~pre.is_replaying)
    => /\ controller_calls = << >>
       /\ replay_complete_calls = << >>
       /\ Session = pre

\* A completion was reported while TEACHING, with both callbacks registered.
C4_Witness ==
    /\ Notified
    /\ pre.is_teaching
    /\ ~pre.is_replaying
    /\ controller_callback_
    /\ replay_complete_callback_

\* C5: ENTRY_TEACH while is_replaying is true never invokes the controller
\* callback and changes none of is_teaching, is_replaying and
\* current_trajectory_name.
C5_EntryTeachWhileReplaying ==
    (ButtonEvent(ENTRY_TEACH) /\ pre.is_replaying)
    => /\ controller_calls = << >>
       /\ ModeKept

\* ENTRY_TEACH during a replay, at a clock reading that would name a
\* trajectory other than the current one.
C5_Witness ==
    /\ ButtonEvent(ENTRY_TEACH)
    /\ pre.is_replaying
    /\ controller_callback_
    /\ current_trajectory_name_ # generate_trajectory_name

\* C6: TEACH_REPEAT while is_teaching is true never invokes the controller
\* callback and changes none of is_teaching, is_replaying and
\* current_trajectory_name.
C6_TeachRepeatWhileTeaching ==
    (ButtonEvent(TEACH_REPEAT) /\ pre.is_teaching)
    => /\ controller_calls = << >>
       /\ ModeKept

\* TEACH_REPEAT during teaching, with a controller ready to accept.
C6_Witness ==
    /\ ButtonEvent(TEACH_REPEAT)
    /\ pre.is_teaching
    /\ controller_callback_
    /\ last_call.ret
    /\ is_teaching_

\* C7: ENTRY_TEACH in IDLE whose controller callback returns true makes
\* exactly one START_RECORD invocation, sets is_teaching, leaves is_replaying
\* false, and stores a non-empty current_trajectory_name that is the id
\* passed to that invocation.
C7_EntryTeachSuccess ==
    (ButtonEvent(ENTRY_TEACH) /\ WasIdle /\ controller_callback_ /\ last_call.ret)
    => /\ controller_calls =
             <<ControllerCall(START_RECORD, current_trajectory_name_, TRUE)>>
       /\ current_trajectory_name_ # ""
       /\ is_teaching_
       /\ ~is_replaying_

\* A second teaching session was opened: the handler already held a name.
C7_Witness ==
    /\ ButtonEvent(ENTRY_TEACH)
    /\ WasIdle
    /\ controller_callback_
    /\ last_call.ret
    /\ pre.current_trajectory_name # ""
    /\ pre.current_trajectory_name # current_trajectory_name_

\* C8: throughout a teaching session the handler holds the id the controller
\* accepted at START_RECORD, whatever calls come in between; EXIT_TEACH
\* passes that id to STOP_RECORD, in exactly one invocation, and on success
\* is_teaching becomes false.
C8_StopRecordSameId ==
    /\ is_teaching_ => current_trajectory_name_ = recorded_trajectory
    /\ (ButtonEvent(EXIT_TEACH) /\ pre.is_teaching /\ controller_callback_)
       => /\ controller_calls =
                <<ControllerCall(STOP_RECORD, recorded_trajectory, last_call.ret)>>
          /\ recorded_trajectory # ""
          /\ last_call.ret => ~is_teaching_

\* A session was closed at a later clock reading than it was opened at.
C8_Witness ==
    /\ ButtonEvent(EXIT_TEACH)
    /\ pre.is_teaching
    /\ ~is_teaching_
    /\ Len(controller_calls) = 1
    /\ controller_calls[1].trajectory_name # generate_trajectory_name

\* C9: a START_RECORD answered false leaves the handler IDLE, a STOP_RECORD
\* answered false leaves it TEACHING, and a START_REPLAY answered false
\* leaves it IDLE.
C9_FailureRows ==
    /\ (ButtonEvent(ENTRY_TEACH) /\ WasIdle /\ controller_callback_ /\ ~last_call.ret)
       => /\ Len(controller_calls) = 1
          /\ controller_calls[1].command = START_RECORD
          /\ ~is_teaching_
          /\ ~is_replaying_
    /\ (ButtonEvent(EXIT_TEACH) /\ pre.is_teaching /\ controller_callback_ /\ ~last_call.ret)
       => /\ Len(controller_calls) = 1
          /\ controller_calls[1].command = STOP_RECORD
          /\ is_teaching_
          /\ ~is_replaying_
    /\ (ButtonEvent(TEACH_REPEAT) /\ WasIdle /\ controller_callback_ /\ ~last_call.ret)
       => /\ Len(controller_calls) = 1
          /\ controller_calls[1].command = START_REPLAY
          /\ ~is_teaching_
          /\ ~is_replaying_

\* A STOP_RECORD was refused and the handler is still TEACHING.
C9_Witness ==
    /\ ButtonEvent(EXIT_TEACH)
    /\ pre.is_teaching
    /\ controller_calls # << >>
    /\ ~controller_calls[1].result
    /\ is_teaching_

\* C10: with no controller-switch callback registered, no on_button_event
\* call changes the mode or the session state: is_teaching, is_replaying and
\* current_trajectory_name stay as they were, from construction on.
C10_NoControllerNoChange ==
    (last_call.op = "on_button_event" /\ ~controller_callback_)
    => ModeKept

\* The controller command an event asks for.
CommandOf(status) ==
    CASE status = ENTRY_TEACH  -> START_RECORD
      [] status = EXIT_TEACH   -> STOP_RECORD
      [] status = TEACH_REPEAT -> START_REPLAY

\* C12: no call retries: on_button_event invokes the controller callback at
\* most once, with START_RECORD for ENTRY_TEACH, STOP_RECORD for EXIT_TEACH
\* and START_REPLAY for TEACH_REPEAT (and not at all for any other status);
\* every other public call, notify_replay_complete included, never invokes
\* it.
C12_AtMostOneRequest ==
    /\ Len(controller_calls) <= 1
    /\ controller_calls # << >>
       => /\ last_call.op = "on_button_event"
          /\ last_call.status \in {ENTRY_TEACH, EXIT_TEACH, TEACH_REPEAT}
          /\ controller_calls[1].command = CommandOf(last_call.status)

\* A START_REPLAY was refused, and was asked once.
C12_Witness ==
    /\ ButtonEvent(TEACH_REPEAT)
    /\ WasIdle
    /\ controller_callback_
    /\ ~last_call.ret
    /\ Len(controller_calls) = 1

\* C13: ENTRY_TEACH while TEACHING, TEACH_REPEAT while REPLAYING and
\* EXIT_TEACH while IDLE or REPLAYING invoke no controller callback and
\* leave is_teaching, is_replaying and current_trajectory_name unchanged.
C13_InapplicableEventsAreNoOps ==
    ( \/ ButtonEvent(ENTRY_TEACH) /\ pre.is_teaching
      \/ ButtonEvent(TEACH_REPEAT) /\ pre.is_replaying
      \/ ButtonEvent(EXIT_TEACH) /\ ~pre.is_teaching )
    => /\ controller_calls = << >>
       /\ ModeKept

\* EXIT_TEACH arrived in IDLE, a trajectory recorded and a controller ready.
C13_Witness ==
    /\ ButtonEvent(EXIT_TEACH)
    /\ WasIdle
    /\ controller_callback_
    /\ last_call.ret
    /\ recorded_trajectory # ""

\* C14: whenever START_REPLAY is requested, the id it carries is the id of
\* the most recent START_RECORD that succeeded, and is not empty; a failed
\* or unserviced ENTRY_TEACH in between does not change it.
C14_ReplayUsesRecordedId ==
    \A k \in DOMAIN controller_calls :
        controller_calls[k].command = START_REPLAY
        => /\ controller_calls[k].trajectory_name = recorded_trajectory
           /\ controller_calls[k].trajectory_name # ""

\* A step that is an on_button_event call.
ButtonEventStep ==
    /\ clock' = clock
    /\ last_call'.op = "on_button_event"

\* C17: once is_replaying is true, every on_button_event call leaves
\* is_replaying true and is_teaching false and invokes no controller
\* callback; is_replaying becomes false only in a notify_replay_complete
\* call.
C17_OnlyNotifyLeavesReplaying ==
    [][ /\ (ButtonEventStep /\ is_replaying_)
           => /\ is_replaying_'
              /\ ~is_teaching_'
              /\ controller_calls' = << >>
        /\ (is_replaying_ /\ ~is_replaying_') => NotifyStep
      ]_vars

\* A TEACH_REPEAT arrived during a replay, a controller ready to accept.
C17_Witness ==
    /\ ButtonEvent(TEACH_REPEAT)
    /\ pre.is_replaying
    /\ is_replaying_
    /\ controller_callback_
    /\ last_call.ret

\* C20: on_button_event with status NONE, or with any value outside
\* ENTRY_TEACH, EXIT_TEACH and TEACH_REPEAT, invokes neither the controller
\* callback nor the completion callback and leaves is_teaching, is_replaying
\* and current_trajectory_name unchanged.
C20_UnknownStatusIsNoOp ==
    ( /\ last_call.op = "on_button_event"
      /\ last_call.status \notin {ENTRY_TEACH, EXIT_TEACH, TEACH_REPEAT} )
    => /\ controller_calls = << >>
       /\ replay_complete_calls = << >>
       /\ ModeKept

\* A status byte outside the enumeration arrived during teaching, a
\* controller ready to accept.
C20_Witness ==
    /\ last_call.op = "on_button_event"
    /\ last_call.status > TEACH_REPEAT
    /\ pre.is_teaching
    /\ controller_callback_
    /\ last_call.ret

\* C19: two successful entries into TEACHING whose clock readings differ by
\* at least one second receive distinct trajectory ids.  (Two entries within
\* the same second receive the same id: C19_SameSecond is reachable.)
C19_DistinctAcrossSeconds ==
    Len(entries) = 2
    => (entries[1].at # entries[2].at => entries[1].id # entries[2].id)

\* Two sessions were opened at different clock readings.
C19_Witness ==
    /\ Len(entries) = 2
    /\ entries[1].at # entries[2].at
    /\ entries[2].id = current_trajectory_name_

\* Two sessions were opened within the same second and share their id.
C19_SameSecond ==
    /\ Len(entries) = 2
    /\ entries[1].at = entries[2].at
    /\ entries[1].id = entries[2].id

\* Both instances have taken the same calls.
TwinsInStep ==
    phase = "first"

\* The two instances agree on the mode flags and the trajectory name.
TwinsAgreeOnMode ==
    /\ is_teaching_ = twin.is_teaching
    /\ is_replaying_ = twin.is_replaying
    /\ current_trajectory_name_ = twin.current_trajectory_name

\* The two instances made the same controller and completion invocations in
\* the call they took last.
TwinsAgreeOnCalls ==
    /\ controller_calls = twin.controller_calls
    /\ replay_complete_calls = twin.replay_complete_calls

\* C11: two handlers fed the same calls with the same controller answers,
\* their log callbacks registered or not independently of each other, are in
\* the same session state after every call and have made the same controller
\* and completion invocations in it.
C11_LoggingNotLoadBearing ==
    TwinsInStep
    => /\ TwinsAgreeOnMode
       /\ last_interface_ = twin.last_interface
       /\ last_call.op # "set_log_callback" => TwinsAgreeOnCalls

\* One instance logged what the other dropped, in a call that reached the
\* controller.
C11_Witness ==
    /\ TwinsInStep
    /\ last_call = twin.last_call
    /\ log_callback_ # twin.log_callback
    /\ log_calls # twin.log_calls
    /\ controller_calls # << >>
    /\ is_teaching_

\* C18: after on_button_event(i, s), last_interface is i whatever s is and
\* whatever became of the event; notify_replay_complete leaves
\* last_interface alone; and two handlers that differ only in the interfaces
\* their button events named, hence in last_interface, make the same
\* transitions, the same controller invocations and emit the same
\* completion signals.
C18_LastInterfaceInformational ==
    /\ last_call.op = "on_button_event" => last_interface_ = last_call.interface
    /\ Notified => last_interface_ = pre.last_interface
    /\ TwinsInStep => TwinsAgreeOnMode /\ TwinsAgreeOnCalls

\* Two handlers whose last button events came from different interfaces
\* were told of the end of a replay, and both signalled the interface given.
C18_Witness ==
    /\ TwinsInStep
    /\ Notified
    /\ last_interface_ # twin.last_interface
    /\ replay_complete_calls = <<last_call.interface>>
    /\ twin.replay_complete_calls = <<last_call.interface>>

\* C15: with two on_button_event calls, ENTRY_TEACH and TEACH_REPEAT, in
\* progress on different threads and interleaved between flag check,
\* controller callback and flag update, is_teaching and is_replaying are
\* never both true.
C15_ExclusiveUnderInterleaving ==
    is_teaching_ => ~is_replaying_

\* C16: a notify_replay_complete called after START_REPLAY was requested,
\* be it while the controller callback was still running, is not lost: once
\* the callback has returned true and no call is in progress, the handler
\* is IDLE and one completion signal was emitted (a completion callback
\* being registered).
C16_CompletionNeverLost ==
    ( /\ Quiescent
      /\ replay_complete_callback_
      /\ replay_request.requested
      /\ replay_request.returned
      /\ replay_request.accepted
      /\ replay_request.notified )
    => /\ ~is_replaying_
       /\ replay_request.signals = 1

=============================================================================
